---- MODULE Spec2Model ----
(***************************************************************************)
(* Model of streamlit_app.py: main() persists the uploaded image and audio *)
(* to the temp directory and calls create_video_from_audio_and_image(),    *)
(* which loads the audio and the image with MoviePy, resizes the image to  *)
(* height 1080, attaches the audio, encodes with write_videofile() and     *)
(* returns the output path, or reports st.error() and returns None.        *)
(* Several script runs (one per user session) execute concurrently and     *)
(* share only the file system.  All of them upload the same two files      *)
(* under the same names, so that only the generated identifiers can keep   *)
(* their temporary files apart.                                            *)
(***************************************************************************)
EXTENDS Integers, Sequences, FiniteSets, TLC

\* ---------------------------------------------------------------- bounds
NumRequests == 2        \* concurrent script runs
MaxDuration == 1        \* audio durations 0..MaxDuration (seconds)
BaseW       == 800      \* smallest image width tried
BaseH       == 600      \* smallest image height tried
MaxDW       == 1        \* widths  BaseW..BaseW+MaxDW
MaxDH       == 0        \* heights BaseH..BaseH+MaxDH

\* ------------------------------------------------------ program constants
TargetHeight == 1080    \* resized(height=1080)

Requests == 1..NumRequests

\* Python's None: the value of an unbound path, clip or result.
None == << >>

\* Uploaded files as main() receives them from st.file_uploader.  An audio
\* upload either decodes to a clip of some duration or makes AudioFileClip
\* raise; an image upload either decodes to w x h pixels or makes ImageClip
\* raise.  Both uploads of every run carry the same file name.
UploadName == "rec"

AudioInputs ==
    {[decodable |-> FALSE, duration |-> 0]} \cup
    {[decodable |-> TRUE, duration |-> d] : d \in 0..MaxDuration}

ImageInputs ==
    {[decodable |-> FALSE, w |-> BaseW, h |-> BaseH]} \cup
    {[decodable |-> TRUE, w |-> w, h |-> h] :
        w \in BaseW..(BaseW + MaxDW), h \in BaseH..(BaseH + MaxDH)}

VARIABLES
    uploaded_image, \* the image file every run uploads
    uploaded_audio, \* the audio file every run uploads
    pc,             \* position of each run of main()
    temp_img_path,  \* main: temp_img_path / image_path_ready
    audio_path,     \* main: audio_path
    audio_clip,     \* create_video: audio_clip, <<duration>> once bound
    image_clip,     \* create_video: image_clip, <<w, h, duration>> once bound
    final_video,    \* create_video: final_video, <<w, h, duration>> once bound
    output_path,    \* create_video: output_path
    temp_audiofile, \* create_video: the temp_audiofile argument
    open,           \* clips of the call that are open (not closed)
    result,         \* main: video_path, the value the call returned
    st_error,       \* text shown by st.error in the call, "" if none
    fs              \* files that exist: records [path, owner]

vars == <<pc, uploaded_image, uploaded_audio, temp_img_path, audio_path,
          audio_clip, image_clip, final_video, output_path, temp_audiofile,
          open, result, st_error, fs>>

\* ------------------------------------------------------------- helpers

\* Mutant of uuid4: the identifier is computed once, when the module is
\* imported, and reused by every call.
uuid4AtImport(r, k) == <<0, 0>>

\* uuid.uuid4() at the k-th call site of run r: 122 random bits, a value that
\* no other call of this or of another run returns.
uuid4(r, k) == <<r, k>>

\* os.path.join(tempfile.gettempdir(), f"<prefix><uuid><suffix>")
TempDirPath(prefix, u, suffix) == <<"tmpdir", prefix, u, suffix>>

\* a bare file name resolves against the working directory
CwdPath(prefix, u, suffix) == <<"cwd", prefix, u, suffix>>

temp_img_name(u) == TempDirPath("uploaded_image_", u, UploadName)
audio_name(u) == TempDirPath("audio_", u, UploadName)
output_name(u) == TempDirPath("video_", u, ".mp4")
temp_audio_name(u) == CwdPath("temp-audio-", u, ".m4a")

Exists(files, p) == \E f \in files : f.path = p

\* open(p, "wb") / the encoder creating p: p exists afterwards, written by r
WriteFile(files, p, r) ==
    {f \in files : f.path # p} \cup {[path |-> p, owner |-> r]}

\* os.remove(p)
RemoveFile(files, p) == {f \in files : f.path # p}

\* Mutant of resized: the width is rounded to the nearest even integer.
resizedRoundEven(clip) ==
    <<2 * ((clip[1] * TargetHeight + clip[2]) \div (2 * clip[2])),
      TargetHeight, clip[3]>>

\* image_clip.resized(height=1080): new size [w * height / h, height], each
\* side then truncated to an integer by the resizer.
resized(clip) ==
    <<(clip[1] * TargetHeight) \div clip[2], TargetHeight, clip[3]>>

Init ==
    /\ uploaded_image \in ImageInputs
    /\ uploaded_audio \in AudioInputs
    /\ pc = [r \in Requests |-> "start"]
    /\ temp_img_path = [r \in Requests |-> None]
    /\ audio_path = [r \in Requests |-> None]
    /\ audio_clip = [r \in Requests |-> None]
    /\ image_clip = [r \in Requests |-> None]
    /\ final_video = [r \in Requests |-> None]
    /\ output_path = [r \in Requests |-> None]
    /\ temp_audiofile = [r \in Requests |-> None]
    /\ open = [r \in Requests |-> {}]
    /\ result = [r \in Requests |-> None]
    /\ st_error = [r \in Requests |-> ""]
    /\ fs = {}


\* ------------------------------------------------------------ main()

\* main, lines 101-110: the image upload is written to a fresh temp file.
MainSaveImage(r) ==
    /\ pc[r] = "start"
    /\ temp_img_path' =
          [temp_img_path EXCEPT ![r] = temp_img_name(uuid4(r, 1))]
    /\ fs' = WriteFile(fs, temp_img_name(uuid4(r, 1)), r)
    /\ pc' = [pc EXCEPT ![r] = "button"]
    /\ UNCHANGED <<uploaded_image, uploaded_audio, audio_path, audio_clip,
                   image_clip, final_video, output_path, temp_audiofile, open,
                   result, st_error>>

\* main, line 115: st.button returned False in this run; the script ends.
MainNoClick(r) ==
    /\ pc[r] = "button"
    /\ pc' = [pc EXCEPT ![r] = "done"]
    /\ UNCHANGED <<uploaded_image, uploaded_audio, temp_img_path, audio_path,
                   audio_clip, image_clip, final_video, output_path,
                   temp_audiofile, open, result, st_error, fs>>

\* main, lines 115-130: the button was pressed; the audio upload is written
\* to a fresh temp file and create_video_from_audio_and_image is entered.
MainSaveAudio(r) ==
    /\ pc[r] = "button"
    /\ audio_path' = [audio_path EXCEPT ![r] = audio_name(uuid4(r, 2))]
    /\ fs' = WriteFile(fs, audio_name(uuid4(r, 2)), r)
    /\ pc' = [pc EXCEPT ![r] = "load_audio"]
    /\ UNCHANGED <<uploaded_image, uploaded_audio, temp_img_path, audio_clip,
                   image_clip, final_video, output_path, temp_audiofile, open,
                   result, st_error>>

\* ------------------------------- create_video_from_audio_and_image()

\* Mutant of Except: the exception is swallowed without st.error.
ExceptSilent(r, e) ==
    /\ st_error' = st_error
    /\ result' = [result EXCEPT ![r] = None]
    /\ pc' = [pc EXCEPT ![r] = "returned"]

\* Mutant of Except: the handler returns the exception instead of None.
ExceptReturnsCause(r, e) ==
    /\ st_error' = [st_error EXCEPT ![r] = e]
    /\ result' = [result EXCEPT ![r] = <<e>>]
    /\ pc' = [pc EXCEPT ![r] = "returned"]

\* lines 69-71: except Exception as e: st.error(...str(e)); return None
Except(r, e) ==
    /\ st_error' = [st_error EXCEPT ![r] = e]
    /\ result' = [result EXCEPT ![r] = None]
    /\ pc' = [pc EXCEPT ![r] = "returned"]

\* Mutant of LoadAudio: the output file is created up front (as by
\* NamedTemporaryFile(delete=False)), before the audio is loaded.
LoadAudioOutputFirst(r) ==
    /\ pc[r] = "load_audio"
    /\ output_path' = [output_path EXCEPT ![r] = output_name(uuid4(r, 3))]
    /\ fs' = WriteFile(fs, output_name(uuid4(r, 3)), r)
    /\ \/ /\ uploaded_audio.decodable
          /\ audio_clip' =
                [audio_clip EXCEPT ![r] = <<uploaded_audio.duration>>]
          /\ open' = [open EXCEPT ![r] = @ \cup {"audio_clip"}]
          /\ pc' = [pc EXCEPT ![r] = "load_image"]
          /\ UNCHANGED <<result, st_error>>
       \/ /\ ~uploaded_audio.decodable
          /\ Except(r, "audio_decode")
          /\ UNCHANGED <<audio_clip, open>>
    /\ UNCHANGED <<uploaded_image, uploaded_audio, temp_img_path, audio_path,
                   image_clip, final_video, temp_audiofile>>

\* line 27: audio_clip = AudioFileClip(audio_path)
LoadAudio(r) ==
    /\ pc[r] = "load_audio"
    /\ \/ /\ uploaded_audio.decodable
          /\ audio_clip' =
                [audio_clip EXCEPT ![r] = <<uploaded_audio.duration>>]
          /\ open' = [open EXCEPT ![r] = @ \cup {"audio_clip"}]
          /\ pc' = [pc EXCEPT ![r] = "load_image"]
          /\ UNCHANGED <<result, st_error>>
       \/ /\ ~uploaded_audio.decodable
          /\ Except(r, "audio_decode")
          /\ UNCHANGED <<audio_clip, open>>
    /\ UNCHANGED <<uploaded_image, uploaded_audio, temp_img_path, audio_path,
                   image_clip, final_video, output_path, temp_audiofile, fs>>

\* line 30: image_clip = ImageClip(image_path, duration=audio_clip.duration)
LoadImage(r) ==
    /\ pc[r] = "load_image"
    /\ \/ /\ uploaded_image.decodable
          /\ image_clip' =
                [image_clip EXCEPT ![r] = <<uploaded_image.w,
                                            uploaded_image.h,
                                            audio_clip[r][1]>>]
          /\ open' = [open EXCEPT ![r] = @ \cup {"image_clip"}]
          /\ pc' = [pc EXCEPT ![r] = "resize"]
          /\ UNCHANGED <<result, st_error>>
       \/ /\ ~uploaded_image.decodable
          /\ Except(r, "image_decode")
          /\ UNCHANGED <<image_clip, open>>
    /\ UNCHANGED <<uploaded_image, uploaded_audio, temp_img_path, audio_path,
                   audio_clip, final_video, output_path, temp_audiofile, fs>>

\* lines 34-39: image_clip = image_clip.resized(height=1080), which may raise
\* (the resizer allocates the scaled frame).
Resize(r) ==
    /\ pc[r] = "resize"
    /\ \/ /\ image_clip' = [image_clip EXCEPT ![r] = resized(image_clip[r])]
          /\ pc' = [pc EXCEPT ![r] = "with_audio"]
          /\ UNCHANGED <<result, st_error>>
       \/ /\ Except(r, "resize")
          /\ UNCHANGED image_clip
    /\ UNCHANGED <<uploaded_image, uploaded_audio, temp_img_path, audio_path,
                   audio_clip, final_video, output_path, temp_audiofile, open,
                   fs>>

\* lines 42-47: final_video = image_clip.with_audio(audio_clip)
WithAudio(r) ==
    /\ pc[r] = "with_audio"
    /\ final_video' = [final_video EXCEPT ![r] = image_clip[r]]
    /\ open' = [open EXCEPT ![r] = @ \cup {"final_video"}]
    /\ pc' = [pc EXCEPT ![r] = "write"]
    /\ UNCHANGED <<uploaded_image, uploaded_audio, temp_img_path, audio_path,
                   audio_clip, image_clip, output_path, temp_audiofile, result,
                   st_error, fs>>

\* lines 50-61, first half of write_videofile: the output path and the
\* temp_audiofile name are generated, then the audio track is encoded into
\* the temp audio file.  The audio encode may raise before the file was
\* created or after a part of it was written.
WriteAudio(r) ==
    /\ pc[r] = "write"
    /\ output_path' = [output_path EXCEPT ![r] = output_name(uuid4(r, 3))]
    /\ temp_audiofile' =
          [temp_audiofile EXCEPT ![r] = temp_audio_name(uuid4(r, 4))]
    /\ \/ /\ fs' = WriteFile(fs, temp_audio_name(uuid4(r, 4)), r)
          /\ pc' = [pc EXCEPT ![r] = "encode"]
          /\ UNCHANGED <<result, st_error>>
       \/ /\ \E partial \in BOOLEAN :
                fs' = IF partial
                      THEN WriteFile(fs, temp_audio_name(uuid4(r, 4)), r)
                      ELSE fs
          /\ Except(r, "audio_encode")
    /\ UNCHANGED <<uploaded_image, uploaded_audio, temp_img_path, audio_path,
                   audio_clip, image_clip, final_video, open>>

\* lines 53-61, second half of write_videofile: the video is encoded and
\* muxed into output_path; remove_temp=True removes the temp audio file
\* once the encode has finished.  An encode that raises leaves write_videofile
\* at once, with whatever it had written.
EncodeVideo(r) ==
    /\ pc[r] = "encode"
    /\ \/ /\ fs' = RemoveFile(WriteFile(fs, output_path[r], r),
                              temp_audiofile[r])
          /\ pc' = [pc EXCEPT ![r] = "close"]
          /\ UNCHANGED <<result, st_error>>
       \/ /\ \E partial \in BOOLEAN :
                fs' = IF partial THEN WriteFile(fs, output_path[r], r) ELSE fs
          /\ Except(r, "video_encode")
    /\ UNCHANGED <<uploaded_image, uploaded_audio, temp_img_path, audio_path,
                   audio_clip, image_clip, final_video, output_path,
                   temp_audiofile, open>>

\* lines 63-68: the three clips are closed and output_path is returned.
CloseAndReturn(r) ==
    /\ pc[r] = "close"
    /\ open' = [open EXCEPT
                  ![r] = @ \ {"audio_clip", "image_clip", "final_video"}]
    /\ result' = [result EXCEPT ![r] = output_path[r]]
    /\ pc' = [pc EXCEPT ![r] = "returned"]
    /\ UNCHANGED <<uploaded_image, uploaded_audio, temp_img_path, audio_path,
                   audio_clip, image_clip, final_video, output_path,
                   temp_audiofile, st_error, fs>>

\* main, lines 130-154: with a video path, the audio file and the video file
\* are removed (the second os.remove is skipped when the first raises);
\* without one nothing is removed.
MainFinish(r) ==
    /\ pc[r] = "returned"
    /\ fs' = IF result[r] # None /\ Exists(fs, audio_path[r])
             THEN RemoveFile(RemoveFile(fs, audio_path[r]), result[r])
             ELSE fs
    /\ pc' = [pc EXCEPT ![r] = "done"]
    /\ UNCHANGED <<uploaded_image, uploaded_audio, temp_img_path, audio_path,
                   audio_clip, image_clip, final_video, output_path,
                   temp_audiofile, open, result, st_error>>

Next ==
    \E r \in Requests :
        \/ MainSaveImage(r)
        \/ MainNoClick(r)
        \/ MainSaveAudio(r)
        \/ LoadAudio(r)
        \/ LoadImage(r)
        \/ Resize(r)
        \/ WithAudio(r)
        \/ WriteAudio(r)
        \/ EncodeVideo(r)
        \/ CloseAndReturn(r)
        \/ MainFinish(r)

Spec == Init /\ [][Next]_vars

\* ------------------------------------------------------------ claims

\* the call of create_video_from_audio_and_image made by run r has returned
Returned(r) ==
    \/ pc[r] = "returned"
    \/ pc[r] = "done" /\ audio_path[r] # None

Failed(r) == Returned(r) /\ st_error[r] # ""

DecodeCauses == {"audio_decode", "image_decode"}
EncodeCauses == {"resize", "audio_encode", "video_encode"}

\* C1: every call that has returned produced exactly one of an output path
\* and a reported error: never a path after an error, never neither; and
\* nothing is reported before the call has ended.
C1_ExactlyOneOutcome ==
    \A r \in Requests :
        /\ Returned(r) => ((result[r] # None) # (st_error[r] # ""))
        /\ ~Returned(r) => result[r] = None /\ st_error[r] = ""

\* C1 witness: one call has returned a path and another has reported an error.
C1_Witness ==
    \E r1, r2 \in Requests :
        /\ Returned(r1) /\ result[r1] # None /\ result[r1] = output_path[r1]
        /\ Returned(r2) /\ result[r2] = None /\ st_error[r2] = "video_encode"

\* C2: when the encode failed, the file at the generated output path does
\* not exist once the call has returned.
C2_NoPartialOutput ==
    \A r \in Requests :
        Returned(r) /\ st_error[r] = "video_encode"
            => ~Exists(fs, output_path[r])

\* the paths run r has generated so far
Paths(r) ==
    {temp_img_path[r], audio_path[r], output_path[r], temp_audiofile[r]}
        \ {None}

Generated(r) ==
    Cardinality({i \in 1..4 :
        <<temp_img_path[r], audio_path[r], output_path[r],
          temp_audiofile[r]>>[i] # None})

\* C3: the persisted image and audio inputs, the output path and the temp
\* mux audio file of one run are pairwise distinct and distinct from those
\* of every other run, and every existing file is at a path of the run that
\* wrote it (no run has overwritten or removed a file of another).
C3_PathsDistinct ==
    /\ \A r \in Requests : Cardinality(Paths(r)) = Generated(r)
    /\ \A r1, r2 \in Requests : r1 # r2 => Paths(r1) \cap Paths(r2) = {}
    /\ \A f \in fs : f.path \in Paths(f.owner)
    /\ \A r \in Requests :
          /\ pc[r] \notin {"start", "done"} => Exists(fs, temp_img_path[r])
          /\ audio_path[r] # None /\ pc[r] # "done" => Exists(fs, audio_path[r])
          /\ pc[r] = "encode" => Exists(fs, temp_audiofile[r])

\* C3 witness: two runs with the same upload names are encoding at the same
\* time, each with its four files generated.
C3_Witness ==
    \E r1, r2 \in Requests :
        /\ r1 # r2
        /\ pc[r1] = "encode" /\ pc[r2] = "encode"
        /\ temp_img_path[r1][4] = temp_img_path[r2][4]
        /\ audio_path[r1][4] = audio_path[r2][4]
        /\ Cardinality(Paths(r1) \cup Paths(r2)) = 8

\* files of the encode step: the output video and the temp mux audio file
EncodeFiles(r) ==
    {f \in fs : f.owner = r /\ f.path[2] \in {"video_", "temp-audio-"}}

\* C4: when loading the audio or the image failed, no output file and no
\* temp mux audio file exists at return, and such files only ever exist once
\* both loads and the composition have succeeded.
C4_NoOutputOnDecodeFailure ==
    \A r \in Requests :
        /\ Returned(r) /\ st_error[r] \in DecodeCauses
              => /\ EncodeFiles(r) = {}
                 /\ output_path[r] = None
                 /\ temp_audiofile[r] = None
        /\ EncodeFiles(r) # {}
              => audio_clip[r] # None /\ image_clip[r] # None
                 /\ final_video[r] # None

\* C4 witness: a call has failed loading its image, after its audio was
\* loaded and with both of its uploads on disk, and left no file of the
\* encode step.
C4_Witness ==
    \E r \in Requests :
        /\ Returned(r) /\ st_error[r] = "image_decode"
        /\ audio_clip[r] # None
        /\ Exists(fs, audio_path[r]) /\ Exists(fs, temp_img_path[r])
        /\ EncodeFiles(r) = {}

\* C5: once a run of main that handled a request has finished, the temp
\* audio file and the temp image file it wrote have been deleted.
C5_UploadsDeleted ==
    \A r \in Requests :
        pc[r] = "done" /\ audio_path[r] # None
            => ~Exists(fs, audio_path[r]) /\ ~Exists(fs, temp_img_path[r])

\* the even integers nearest to p / q
Dist(a, b) == IF a >= b THEN a - b ELSE b - a
NearestEven(p, q) ==
    LET lo == 2 * (p \div (2 * q))
    IN {e \in {lo, lo + 2} :
           \A e2 \in {lo, lo + 2} : Dist(e * q, p) <= Dist(e2 * q, p)}

C7_AllClosed ==
    \A r \in Requests : Returned(r) => open[r] = {}

\* C8: a temp mux audio file that the encode step created no longer exists
\* once the call has returned, whether the encode succeeded or failed.
C8_TempAudioRemoved ==
    \A r \in Requests :
        Returned(r) /\ temp_audiofile[r] # None
            => ~Exists(fs, temp_audiofile[r])

\* C9: the image clip, the composition and the encode are only ever built
\* from an audio clip of duration > 0.
C9_PositiveDuration ==
    \A r \in Requests :
        image_clip[r] # None
            => audio_clip[r][1] > 0 /\ image_clip[r][3] > 0

====
